---- MODULE Spec2Model ----
(***************************************************************************)
(* Model of the command dispatcher of api/whatsapp_api_handle.py: the      *)
(* Message normalizer and validator, the tokenizer / privilege escalator,  *)
(* the plugin registry, API.command_handle, and the natural-language       *)
(* fallback (API.message_handle).                                          *)
(*                                                                         *)
(* Strings are sequences of atoms.  An atom is either a single structural  *)
(* character (".", "/", " ", the non-breaking space) or a run of other     *)
(* characters (a word, a digit run, "@g.us", ...).  No atom is a           *)
(* concatenation of other atoms, so prefix / suffix / split tests on atom  *)
(* sequences agree with the tests Python makes on the characters.          *)
(***************************************************************************)
EXTENDS Integers, Sequences, FiniteSets, TLC

VARIABLES
    appSettings,   \* api.appSettings: admin_ids, blacklist_ids, admin_command_prefix
    DEBUG,         \* Whatsapp_API.settings.DEBUG
    other,         \* the API object of a second request in flight, while it does not run
    plugin_files,  \* the modules of api/plugins, in the order os.listdir returned them
    plugins,       \* API.plugins, the dict built by Plugin.load_plugins (insertion order)
    message,       \* API.message, the Message of the cycle in progress
    context,       \* the previous messages API.gptResponse passed to the language model
    response,      \* the dict returned by API.gptResponse
    pc,            \* position of the cycle inside API.__init__ / start_prosess / message_handle
    sent,          \* requests.post calls of the cycle: <<[phone, message]>>
    invoked,       \* plugin.handle_function calls of the cycle
    log,           \* components that ran in the cycle, in order
    raised,        \* exception that left API(data), "None" if none
    history,       \* GPTResponse rows, in creation order
    inbound,       \* the request body the cycle in progress was started with
    rawAddr,       \* input of Message.get_group_and_sender_id (identity resolver runs)
    idResult       \* its result

vars == <<appSettings, DEBUG, other, plugin_files, plugins, message, context, response, pc, sent,
          invoked, log, raised, history, inbound, rawAddr, idResult>>

----------------------------------------------------------------------------
(* Bounds *)

\* Longest raw address, in atoms, the identity resolver is run on.
MaxAddrLen == 4
\* Number of GPTResponse rows after which no further event is taken in.
MaxHistory == 1
\* Largest number of modules in api/plugins when the directory is varied.
MaxModules == 3
\* Largest number of GPTResponse rows a cycle starts with when the history is varied.
MaxRows == 6

----------------------------------------------------------------------------
(* Python values *)

None == "None"
NoneSeq == <<"None">>          \* None where the present value is a sequence

NBSP == "nbsp"                 \* "\xa0"
IsSpace(a) == a \in {" ", NBSP}

Range(s) == {s[i] : i \in DOMAIN s}

RECURSIVE Join(_)
\* "".join(atoms): the Python string an atom sequence stands for
Join(s) == IF s = <<>> THEN "" ELSE Head(s) \o Join(Tail(s))

StartsWith(s, p) == Len(s) >= Len(p) /\ SubSeq(s, 1, Len(p)) = p
EndsWith(s, p) == Len(s) >= Len(p) /\ SubSeq(s, Len(s) - Len(p) + 1, Len(s)) = p

RECURSIVE LStrip(_, _)
\* str.lstrip(chars) for a set of one-character atoms
LStrip(s, chars) ==
    IF s # <<>> /\ Head(s) \in chars THEN LStrip(Tail(s), chars) ELSE s

RECURSIVE RStrip(_, _)
RStrip(s, chars) ==
    IF s # <<>> /\ s[Len(s)] \in chars THEN RStrip(SubSeq(s, 1, Len(s) - 1), chars) ELSE s

\* str.strip()
Strip(s) == RStrip(LStrip(s, {" ", NBSP}), {" ", NBSP})

RECURSIVE SplitWs(_, _, _)
\* str.split(): the maximal runs of non-whitespace, each joined to one token
SplitWs(s, cur, acc) ==
    IF s = <<>> THEN (IF cur = <<>> THEN acc ELSE Append(acc, Join(cur)))
    ELSE IF IsSpace(Head(s))
         THEN SplitWs(Tail(s), <<>>, IF cur = <<>> THEN acc ELSE Append(acc, Join(cur)))
         ELSE SplitWs(Tail(s), Append(cur, Head(s)), acc)

Split(s) == SplitWs(s, <<>>, <<>>)

RECURSIVE SplitOn(_, _, _, _)
\* str.split(sep) for a one-atom separator: always at least one part
SplitOn(s, sep, cur, acc) ==
    IF s = <<>> THEN Append(acc, cur)
    ELSE IF Head(s) = sep
         THEN SplitOn(Tail(s), sep, <<>>, Append(acc, cur))
         ELSE SplitOn(Tail(s), sep, Append(cur, Head(s)), acc)

\* str.replace("\xa0", " ")
ReplaceNbsp(s) == [i \in DOMAIN s |-> IF s[i] = NBSP THEN " " ELSE s[i]]

----------------------------------------------------------------------------
(* Identity resolver: Message.get_group_and_sender_id and the short ids *)

SEP == " in "
GROUP_SUFFIX == "@g.us"
USER_SUFFIX == "@s.whatsapp.net"

DigitAtoms == {"1", "2", "9"}
DelimAtoms == {GROUP_SUFFIX, USER_SUFFIX, ":"}     \* atoms that contain ':' or '@'
AddrAtoms == {"1", "2", SEP, GROUP_SUFFIX, USER_SUFFIX}

\* sender, group = string.split(" in ") raises ValueError unless there are two parts
get_group_and_sender_id(string) ==
    IF SEP \in Range(string)
    THEN LET parts == SplitOn(string, SEP, <<>>, <<>>) IN
         IF Len(parts) # 2
         THEN [raises |-> "ValueError", sender |-> NoneSeq, group |-> NoneSeq]
         ELSE IF ~EndsWith(parts[2], <<GROUP_SUFFIX>>)
              THEN [raises |-> None, sender |-> parts[2], group |-> NoneSeq]
              ELSE [raises |-> None, sender |-> parts[1], group |-> parts[2]]
    ELSE [raises |-> None, sender |-> string, group |-> NoneSeq]

RECURSIVE LeadingDigits(_)
LeadingDigits(s) ==
    IF s # <<>> /\ Head(s) \in DigitAtoms THEN 1 + LeadingDigits(Tail(s)) ELSE 0

\* re.sub(r"^(\d+).*[:@].*$", r"\1", id) if id else None
short_id(id) ==
    IF id = NoneSeq \/ id = <<>> THEN None
    ELSE LET k == LeadingDigits(id) IN
         IF k >= 1 /\ \E i \in (k + 1)..Len(id) : id[i] \in DelimAtoms
         THEN Join(SubSeq(id, 1, k))
         ELSE Join(id)

----------------------------------------------------------------------------
(* Plugin registry: Plugin.load_plugins over the modules of api/plugins *)

\* pluginInfo of api/plugins/blacklistHandle.py
blacklistHandle ==
    [file |-> "blacklistHandle", command_name |-> "blacklist", admin_privilege |-> TRUE,
     description |-> "Add or remove a number from blacklist.", internal |-> FALSE,
     preprocess |-> FALSE, help_message |-> FALSE]

\* pluginInfo of api/plugins/settingsHandle.py
settingsHandle ==
    [file |-> "settingsHandle", command_name |-> "settings", admin_privilege |-> TRUE,
     description |-> "Settings commands to manage settings.", internal |-> FALSE,
     preprocess |-> FALSE, help_message |-> FALSE]

\* pluginInfo of api/plugins/classroomHandle.py
classroomHandle ==
    [file |-> "classroomHandle", command_name |-> "classroom", admin_privilege |-> FALSE,
     description |-> "This is a classroom plugin.", internal |-> TRUE,
     preprocess |-> FALSE, help_message |-> FALSE]

\* A second module that declares the command name and tier of settingsHandle.py
settingsCopy == [settingsHandle EXCEPT !.file = "settingsCopy"]

\* A module that declares the command name "settings" in the Standard tier
settingsUser == [settingsHandle EXCEPT !.file = "settingsUser", !.admin_privilege = FALSE]

\* Two modules that define a preprocess function next to handle_function
remindHook ==
    [file |-> "remindHook", command_name |-> "remind", admin_privilege |-> FALSE,
     description |-> "Remind.", internal |-> TRUE, preprocess |-> TRUE, help_message |-> FALSE]

notifyHook ==
    [file |-> "notifyHook", command_name |-> "notify", admin_privilege |-> TRUE,
     description |-> "Notify.", internal |-> FALSE, preprocess |-> TRUE, help_message |-> FALSE]

\* Two modules whose handle_function raises SendHelp: one defines helpMessage,
\* the other does not
askHelp ==
    [file |-> "askHelp", command_name |-> "ask", admin_privilege |-> FALSE,
     description |-> "Ask.", internal |-> FALSE, preprocess |-> FALSE, help_message |-> TRUE]

tellBare ==
    [file |-> "tellBare", command_name |-> "tell", admin_privilege |-> TRUE,
     description |-> "Tell.", internal |-> FALSE, preprocess |-> FALSE, help_message |-> FALSE]

Modules ==
    {blacklistHandle, settingsHandle, classroomHandle, settingsCopy, settingsUser,
     remindHook, notifyHook}

\* Orders in which os.listdir may return the plugin files.
ListDirOrders ==
    { <<blacklistHandle, settingsHandle, classroomHandle>>,
      <<classroomHandle, blacklistHandle, settingsHandle>> }

IndexOf(reg, name) ==
    IF \E i \in DOMAIN reg : reg[i].command_name = name
    THEN CHOOSE i \in DOMAIN reg : reg[i].command_name = name
    ELSE 0

RECURSIVE load_from(_, _)
\* plugins[command_name] = Plugin(...): a later module with the same command
\* name replaces the entry, which keeps its place in the dict's order
load_from(files, reg) ==
    IF files = <<>> THEN reg
    ELSE LET p == Head(files)
             i == IndexOf(reg, p.command_name) IN
         load_from(Tail(files), IF i = 0 THEN Append(reg, p) ELSE [reg EXCEPT ![i] = p])

load_plugins(files) == load_from(files, <<>>)

\* Contents of api/plugins of up to MaxModules modules, in every listing order
Directories ==
    UNION { { d \in [1..n -> Modules] : \A i, j \in 1..n : i # j => d[i].file # d[j].file }
            : n \in 0..MaxModules }

----------------------------------------------------------------------------
(* Settings and inbound events *)

\* Phone-number region table behind Message.get_timezone: "9" does not parse
TimezoneTable == [s \in {"1", "2", "9"} |->
                    IF s = "9" THEN None ELSE "Asia/Karachi"]

NoDocument == [type |-> None, materials |-> <<>>]
Documents == { [type |-> "material", materials |-> <<>>],
               [type |-> "coursework", materials |-> <<"link">>] }

NoMedia == [type |-> None, caption |-> <<>>, mime_type |-> None, media_path |-> None]

Addresses ==
    { <<"1", USER_SUFFIX>>,
      <<"2", USER_SUFFIX>>,
      <<"9", USER_SUFFIX>>,
      <<"1", USER_SUFFIX, SEP, "9", GROUP_SUFFIX>>,
      <<"2", USER_SUFFIX, SEP, "9", GROUP_SUFFIX>>,
      <<"1", USER_SUFFIX, SEP, "2", USER_SUFFIX>>,
      <<"1", SEP, "2", SEP, "9", GROUP_SUFFIX>> }

\* Command bodies a user types after the structural prefix
Bodies ==
    { <<>>,
      <<"hello">>,
      <<"/">>,
      <<"/", "help">>,
      <<"/", NBSP, "help">>,
      <<"/", "abd">>,
      <<"/", "abd", " ", "help">>,
      <<"/", "abd", " ", "settings">>,
      <<"/", "abd", " ", "classroom">>,
      <<"/", "abd", " ", "zzz">>,
      <<"/", "abd", " ", "blacklist">>,
      <<"/", "abd", " ", "blacklist", " ", "-a", " ", "2">>,
      <<"/", "abd", " ", "blacklist", " ", "-a", " ", "1", " ", "-g">>,
      <<"/", "abd", " ", "blacklist", " ", "-r", " ", "2">>,
      <<"/", "settings">>,
      <<"/", "classroom">>,
      <<"/", "zzz">> }

\* Bodies also typed behind the leading dot of a group command
DotBodies ==
    { <<>>,
      <<"hello">>,
      <<"/">>,
      <<"/", "help">>,
      <<"/", "abd", " ", "help">>,
      <<"/", "abd", " ", "settings">>,
      <<"/", "abd", " ", "blacklist", " ", "-a", " ", "2">>,
      <<"/", "settings">>,
      <<"/", "zzz">> }

Texts == Bodies \cup { <<".">> \o b : b \in DotBodies } \cup { <<".", ".", "/", "help">> }

MediaOptions ==
    { NoMedia,
      [type |-> "image", caption |-> <<"hello">>, mime_type |-> "image/jpeg",
       media_path |-> "statics/media/1.jpg"] }

\* request bodies of POST /api/whatsapp
WhatsappEvents ==
    { [from |-> a, text |-> t, media |-> NoMedia, document |-> NoDocument,
       document_type |-> None] : a \in Addresses, t \in Texts }
    \cup
    { [from |-> a, text |-> <<>>, media |-> m, document |-> NoDocument,
       document_type |-> None] : a \in Addresses, m \in MediaOptions \ {NoMedia} }
    \cup
    { [from |-> <<"2", USER_SUFFIX>>, text |-> <<"/", "classroom">>, media |-> NoMedia,
       document |-> d, document_type |-> None] : d \in Documents }

\* answers of the language model: console and chat are both optional
Consoles ==
    { NoneSeq,
      <<"settings", " ", "-g", " ", "all">>,
      <<"/", "abd", " ", "settings">>,
      <<".", "/", "zzz">>,
      <<"abd", " ", "blacklist", " ", "-g">>,
      <<"/">> }

Responses == [console : Consoles, chat : {None, "hi"}]

----------------------------------------------------------------------------
(* Message: outbound send, validation, tokenization *)

\* A cycle's working state st = [message, sent, invoked, log, appSettings, exc,
\* excText]: exc is the exception in flight ("None" when there is none) and
\* excText its str().  Every operator below maps st to the st after the call.

Raise(st, e, text) ==
    [st EXCEPT !.exc = e, !.excText = text, !.log = Append(@, "raise:" \o e)]
Logged(st, what) == [st EXCEPT !.log = Append(@, what)]

\* Message.send_message: one POST send/message per entry of send_to
send_message(st) ==
    [st EXCEPT !.sent = @ \o [i \in DOMAIN st.message.send_to |->
                                [phone |-> st.message.send_to[i],
                                 endpoint |-> "send/message",
                                 message |-> st.message.outgoing_text_message]]]

\* Message.send_file: one POST send/file per entry of send_to, without caption
send_file(st) ==
    [st EXCEPT !.sent = @ \o [i \in DOMAIN st.message.send_to |->
                                [phone |-> st.message.send_to[i],
                                 endpoint |-> "send/file",
                                 message |-> <<>>]]]

\* Message.validate: the exception it raises, "None" if it returns
validate_unordered(m, settings, debug) ==
    IF m.sender \notin Range(settings.admin_ids) /\ m.sender \in settings.blacklist_ids
    THEN "SenderInBlackList"
    ELSE IF m.incoming_text_message = <<>> /\ m.group # None
    THEN "EmptyMessageInGroup"
    ELSE IF m.sender \notin Range(settings.admin_ids) /\ debug
    THEN "PermissionError"
    ELSE None

validate_no_admin_exemption(m, settings, debug) ==
    IF m.incoming_text_message = <<>> /\ m.group # None
    THEN "EmptyMessageInGroup"
    ELSE IF m.sender \in settings.blacklist_ids
    THEN "SenderInBlackList"
    ELSE IF m.sender \notin Range(settings.admin_ids) /\ debug
    THEN "PermissionError"
    ELSE None

validate(m, settings, debug) ==
    IF m.incoming_text_message = <<>> /\ m.group # None
    THEN "EmptyMessageInGroup"
    ELSE IF m.sender \notin Range(settings.admin_ids) /\ m.sender \in settings.blacklist_ids
    THEN "SenderInBlackList"
    ELSE IF m.sender \notin Range(settings.admin_ids) /\ debug
    THEN "PermissionError"
    ELSE None

\* Message.set_incoming_text_message: the caption of a media event, else the text
set_incoming_text_message(data) ==
    IF data.media.type # None THEN ReplaceNbsp(data.media.caption)
    ELSE ReplaceNbsp(data.text)

\* Message.get_timezone: None when the sender does not parse as a phone number
get_timezone(sender) ==
    IF sender \in DOMAIN TimezoneTable THEN TimezoneTable[sender] ELSE None

\* Message.__init__ up to the call of validate
NewMessage(data, ids) ==
    LET sender == short_id(ids.sender)
        group == short_id(ids.group) IN
    [senderId |-> ids.sender, groupId |-> ids.group, sender |-> sender, group |-> group,
     command_prefix |-> IF group # None THEN <<".", "/">> ELSE <<"/">>,
     arguments |-> NoneSeq, admin_privilege |-> FALSE,
     incoming_text_message |-> set_incoming_text_message(data),
     outgoing_text_message |-> <<>>,
     send_to |-> <<IF ids.group = NoneSeq THEN ids.sender ELSE ids.group>>,
     document |-> data.document, document_type |-> data.document_type,
     media_type |-> data.media.type, media_mime_type |-> None, media_path |-> None,
     timezone |-> None]

\* Message.set_media and Message.get_timezone, the tail of Message.__init__
FinishMessage(m, data) ==
    [m EXCEPT !.media_mime_type = IF m.media_type # None THEN data.media.mime_type ELSE @,
              !.media_path = IF m.media_type # None THEN data.media.media_path ELSE @,
              !.timezone = get_timezone(m.sender)]

\* re.match(r"\.[^\.].*", text)
MatchesDot_any_dots(text) == Len(text) >= 2 /\ text[1] = "."

MatchesDot(text) == Len(text) >= 2 /\ text[1] = "." /\ text[2] # "."

\* The escalation test of Message.process_incoming_text_message
Escalates_no_admin_check(m, settings) ==
    settings.admin_command_prefix = m.arguments[1]

Escalates(m, settings) ==
    settings.admin_command_prefix = m.arguments[1] /\ m.sender \in Range(settings.admin_ids)

\* Message.process_incoming_text_message
process_incoming_text_message(st) ==
    LET m0 == st.message
        st1 == Logged(st, "tokenize") IN
    IF m0.group # None /\ ~MatchesDot(m0.incoming_text_message)
    THEN Raise(st1, "MessageNotValid", <<"Message does not start with a dot.">>)
    ELSE
    LET text1 == IF m0.group # None
                 THEN Strip(LStrip(m0.incoming_text_message, {"."}))
                 ELSE m0.incoming_text_message IN
    IF ~StartsWith(text1, <<"/">>)
    THEN [st1 EXCEPT !.message.incoming_text_message = text1]
    ELSE
    LET text2 == Strip(Tail(text1))
        m2 == [m0 EXCEPT !.incoming_text_message = text2, !.arguments = Split(text2)] IN
    IF m2.arguments = <<>>
    THEN Raise([st1 EXCEPT !.message = m2], "IndexError", <<"list index out of range">>)
    ELSE IF Escalates(m2, st.appSettings)
    THEN [st1 EXCEPT !.message =
            [m2 EXCEPT !.admin_privilege = TRUE,
                       !.arguments = IF Tail(m2.arguments) = <<>> THEN <<"help">>
                                     ELSE Tail(m2.arguments)]]
    ELSE [st1 EXCEPT !.message = m2]

----------------------------------------------------------------------------
(* Plugin handlers (api/plugins) *)

Flags == {"-a", "-r", "-g"}

RECURSIVE parse_args(_, _, _)
\* blacklistHandle.parser: -a / -r take one or more values, -g none; a value
\* outside a flag, or a flag without a value, ends in SystemExit
parse_args(args, cur, acc) ==
    IF args = <<>>
    THEN IF cur \in {"-a", "-r"} /\ acc[cur] = <<>> THEN [acc EXCEPT !.error = TRUE] ELSE acc
    ELSE LET a == Head(args) IN
         IF a \in Flags
         THEN IF cur \in {"-a", "-r"} /\ acc[cur] = <<>>
              THEN [acc EXCEPT !.error = TRUE]
              ELSE IF a = "-g"
                   THEN parse_args(Tail(args), "-g", [acc EXCEPT !.get = TRUE])
                   ELSE parse_args(Tail(args), a, [acc EXCEPT ![a] = <<>>])
         ELSE IF cur \in {"-a", "-r"}
              THEN parse_args(Tail(args), cur, [acc EXCEPT ![cur] = Append(@, a)])
              ELSE [acc EXCEPT !.error = TRUE]

parser(args) ==
    LET r == parse_args(args, "", [error |-> FALSE, get |-> FALSE] @@
                                  ("-a" :> <<>> @@ "-r" :> <<>>)) IN
    [error |-> r.error, add |-> r["-a"], remove |-> r["-r"], get |-> r.get]

UsageText == <<"*Usage:*">>

\* blacklistHandle.handle_function; blacklist_ids is kept as a set, and the
\* reply to -r is the text set for the last number
blacklist_handle(st) ==
    LET args == st.message.arguments
        parsed == parser(Tail(args)) IN
    IF Len(args) = 1 \/ parsed.error
    THEN send_message([st EXCEPT !.message.outgoing_text_message = UsageText])
    ELSE
    LET st1 == IF parsed.add # <<>>
               THEN send_message(
                      [st EXCEPT !.appSettings.blacklist_ids = @ \cup Range(parsed.add),
                                 !.log = Append(@, "write:blacklist_ids"),
                                 !.message.outgoing_text_message = <<"*Blacklisted*">>])
               ELSE st
        st2 == IF parsed.remove # <<>>
               THEN send_message(
                      [st1 EXCEPT !.appSettings.blacklist_ids = @ \ Range(parsed.remove),
                                  !.log = Append(@, "write:blacklist_ids"),
                                  !.message.outgoing_text_message =
                                     LET n == Len(parsed.remove) IN
                                     IF /\ parsed.remove[n] \in st1.appSettings.blacklist_ids
                                        /\ parsed.remove[n] \notin
                                              Range(SubSeq(parsed.remove, 1, n - 1))
                                     THEN <<"*Removed from blacklist*">>
                                     ELSE <<"is not in blacklist.">>])
               ELSE st1
        st3 == IF parsed.get
               THEN send_message(
                      [st2 EXCEPT !.message.outgoing_text_message = <<"*Blacklisted*: ">>])
               ELSE st2 IN
    st3

\* settingsHandle.handle_function: parser() is given the command name as well,
\* which argparse rejects, so the handler always replies with format_help()
settings_handle_changes(st) ==
    send_message([st EXCEPT !.appSettings.admin_ids = Append(@, "2"),
                            !.message.outgoing_text_message = <<"Setting changed">>])

settings_handle(st) ==
    send_message([st EXCEPT !.message.outgoing_text_message = <<"usage: [-h] [-c] [-g]">>])

RECURSIVE send_materials(_, _)
\* classroomHandle.handle_function, the loop over the materials
send_materials(st, materials) ==
    IF materials = <<>> THEN st
    ELSE LET st1 == [st EXCEPT !.message.outgoing_text_message = <<"*Material*">>] IN
         send_materials(
            IF Head(materials) = "driveFile" THEN send_file(st1)
            ELSE IF Head(materials) \in {"youtubeVideo", "link"} THEN send_message(st1)
            ELSE st,
            Tail(materials))

\* classroomHandle.handle_function: message.document["content"] on a Message
\* without document is a TypeError
classroom_handle(st) ==
    IF st.message.document.type = None
    THEN Raise(st, "TypeError", <<"'NoneType' object is not subscriptable">>)
    ELSE send_materials(
            send_message([st EXCEPT !.message.outgoing_text_message =
                              IF st.message.document.type = "material"
                              THEN <<"*New Material*">> ELSE <<"*New Coursework*">>]),
            st.message.document.materials)

\* plugin.handle_function(self.message)
handle_function(plugin, st) ==
    LET st1 == [st EXCEPT !.invoked = Append(@,
                   [command_name |-> plugin.command_name,
                    plugin_admin |-> plugin.admin_privilege,
                    message_admin |-> st.message.admin_privilege,
                    arguments |-> st.message.arguments,
                    file |-> plugin.file]),
                          !.log = Append(@, "handle_function")] IN
    IF plugin.file = "blacklistHandle" THEN blacklist_handle(st1)
    ELSE IF plugin.command_name = "settings" THEN settings_handle(st1)
    ELSE IF plugin.file = "classroomHandle" THEN classroom_handle(st1)
    ELSE IF plugin.file \in {"askHelp", "tellBare"} THEN Raise(st1, "SendHelp", <<>>)
    ELSE st1

----------------------------------------------------------------------------
(* Dispatcher and help generator *)

\* command_prefix + (admin_command_prefix + " " if admin else "") + name
Pretext(m, settings, admin, name) ==
    Join(m.command_prefix) \o (IF admin THEN settings.admin_command_prefix \o " " ELSE "")
        \o name

RECURSIVE help_entries(_, _, _, _)
\* the loop of API.get_help: one numbered entry per plugin of the Message's
\* tier that is not internal
help_entries(reg, m, settings, i) ==
    IF reg = <<>> THEN <<>>
    ELSE LET p == Head(reg) IN
         IF p.admin_privilege = m.admin_privilege /\ ~p.internal
         THEN << "*" \o ToString(i) \o ". " \o p.description \o "*",
                 "'" \o Pretext(m, settings, p.admin_privilege, p.command_name) \o "'" >>
              \o help_entries(Tail(reg), m, settings, i + 1)
         ELSE help_entries(Tail(reg), m, settings, i)

\* API.get_help: the trailing entry reads the loop variable plugin, that is
\* the last plugin of the registry (unbound when the registry is empty)
get_help(st, reg) ==
    LET m == st.message
        entries == help_entries(reg, m, st.appSettings, 1)
        st1 == Logged(st, "get_help") IN
    IF reg = <<>>
    THEN Raise(st1, "UnboundLocalError", <<"local variable 'plugin' referenced before assignment">>)
    ELSE [st1 EXCEPT !.message.outgoing_text_message =
            <<"*Available commands:*">> \o entries \o
            << "*" \o ToString(Len(entries) \div 2 + 1) \o ". Show this message*",
               "'" \o Pretext(m, st.appSettings, reg[Len(reg)].admin_privilege, "help") \o "'" >>]

\* Plugin.str_help_message: self.help_message["commands"] on a plugin without
\* helpMessage is a TypeError
str_help_message(plugin, pretext) ==
    IF ~plugin.help_message
    THEN [raises |-> "TypeError", text |-> <<>>]
    ELSE [raises |-> None,
          text |-> <<"*Command Name: '" \o plugin.command_name \o "'*", pretext>>]

SenderNotAdminText == <<"You are not an admin and cannot use admin commands.">>
CommandNotFoundText(m) == <<"Command '" \o m.arguments[1] \o "' not found.">>

\* The plugin branch of API.command_handle, entered when arguments[0] is a key
\* of the registry: the handler runs only on equal tiers
plugin_branch_any_tier(st, plugin) ==
    handle_function(plugin, st)

plugin_branch(st, plugin) ==
    IF plugin.admin_privilege = st.message.admin_privilege
    THEN handle_function(plugin, st)
    ELSE st

\* The admin gate of API.command_handle
AdminGate_open(m, settings) == FALSE

AdminGate(m, settings) ==
    m.arguments[1] = settings.admin_command_prefix /\ ~m.admin_privilege

\* API.command_handle
command_handle(st, reg) ==
    LET m == st.message
        st1 == Logged(st, "command_handle") IN
    IF AdminGate(m, st.appSettings)
    THEN Raise(st1, "SenderNotAdmin", SenderNotAdminText)
    ELSE IF m.arguments = <<"">> \/ m.arguments[1] = "help"
    THEN LET h == get_help(st1, reg) IN
         IF h.exc # None THEN h ELSE send_message(h)
    ELSE IF IndexOf(reg, m.arguments[1]) # 0
    THEN LET plugin == reg[IndexOf(reg, m.arguments[1])]
             r == plugin_branch(st1, plugin) IN
         IF r.exc = "SendHelp"
         THEN LET h == str_help_message(plugin,
                          Pretext(m, st.appSettings, plugin.admin_privilege,
                                  plugin.command_name)) IN
              IF h.raises # None THEN Raise(r, h.raises, <<>>)
              ELSE send_message([r EXCEPT !.exc = None, !.excText = <<>>,
                                          !.message.outgoing_text_message = h.text])
         ELSE r
    ELSE Raise(st1, "CommandNotFound", CommandNotFoundText(m))

----------------------------------------------------------------------------
(* The cycle: API.__init__, API.start_prosess, API.message_handle *)

NoMessage ==
    [senderId |-> NoneSeq, groupId |-> NoneSeq, sender |-> None, group |-> None,
     command_prefix |-> <<"/">>, arguments |-> NoneSeq, admin_privilege |-> FALSE,
     incoming_text_message |-> <<>>, outgoing_text_message |-> <<>>,
     send_to |-> <<>>, document |-> NoDocument, document_type |-> None,
     media_type |-> None, media_mime_type |-> None, media_path |-> None,
     timezone |-> None]

NoEvent == [from |-> <<>>, text |-> <<>>, media |-> NoMedia, document |-> NoDocument,
            document_type |-> "NoEvent"]

NoResponse == [console |-> NoneSeq, chat |-> None]
NotRun == [raises |-> "NotRun", sender |-> NoneSeq, group |-> NoneSeq]

St == [message |-> message, sent |-> sent, invoked |-> invoked, log |-> log,
       appSettings |-> appSettings, exc |-> None, excText |-> <<>>]

\* Python truthiness of an optional list and of an optional string
TruthySeq(x) == x # NoneSeq /\ x # <<>>
TruthyStr(x) == x # None /\ x # ""

\* except (CommandNotFound, SenderNotAdmin) as e, in API.start_prosess
start_prosess_except_silent(st) ==
    IF st.exc \in {"CommandNotFound", "SenderNotAdmin"}
    THEN [st EXCEPT !.exc = None, !.message.outgoing_text_message = st.excText]
    ELSE st

start_prosess_except(st) ==
    IF st.exc \in {"CommandNotFound", "SenderNotAdmin"}
    THEN send_message([st EXCEPT !.exc = None,
                                 !.message.outgoing_text_message = st.excText])
    ELSE st

\* The variables a step of the cycle leaves in st; an exception still in
\* flight leaves API(data) and ends the cycle
Continue(st, next) ==
    /\ message' = st.message
    /\ sent' = st.sent
    /\ invoked' = st.invoked
    /\ log' = st.log
    /\ appSettings' = st.appSettings
    /\ raised' = st.exc
    /\ pc' = IF st.exc # None THEN "done" ELSE next

\* API.__init__: Message(data), then Plugin.load_plugins()
APIInit(data, files) ==
    /\ pc = "idle"
    /\ LET ids == get_group_and_sender_id(data.from)
           fresh == [message |-> NoMessage, sent |-> <<>>, invoked |-> <<>>, log |-> <<>>,
                     appSettings |-> appSettings, exc |-> None, excText |-> <<>>] IN
       /\ rawAddr' = data.from
       /\ inbound' = data
       /\ idResult' = ids
       /\ response' = NoResponse
       /\ UNCHANGED <<DEBUG, other, history, context>>
       /\ IF ids.raises # None
          THEN /\ Continue(Raise(fresh, ids.raises, <<>>), "done")
               /\ UNCHANGED <<plugin_files, plugins>>
          ELSE LET m == NewMessage(data, ids)
                   v == validate(m, appSettings, DEBUG) IN
               IF v # None
               THEN /\ Continue(Raise([fresh EXCEPT !.message = m, !.log = <<"validate">>],
                                      v, <<>>), "done")
                    /\ UNCHANGED <<plugin_files, plugins>>
               ELSE /\ Continue([fresh EXCEPT !.message = FinishMessage(m, data),
                                              !.log = <<"validate", "load_plugins">>],
                                "start_prosess")
                    /\ plugin_files' = files
                    /\ plugins' = load_plugins(files)

\* views.whatsapp: POST /api/whatsapp
whatsapp ==
    /\ pc = "idle"
    /\ Len(history) < MaxHistory
    /\ \E data \in WhatsappEvents, files \in ListDirOrders : APIInit(data, files)

\* views.classroom: POST /api/classroom
classroom ==
    /\ pc = "idle"
    /\ Len(history) < MaxHistory
    /\ \E d \in Documents, files \in ListDirOrders :
        APIInit([from |-> <<appSettings.admin_ids[1], USER_SUFFIX, SEP,
                            appSettings.classroom_group_id, GROUP_SUFFIX>>,
                 text |-> <<".", "/", "google_classroom_api">>, media |-> NoMedia,
                 document |-> d, document_type |-> "google_classroom_api"], files)

\* views.reminder: POST /api/reminder, one API(...) per notified reminder
reminder ==
    /\ pc = "idle"
    /\ Len(history) < MaxHistory
    /\ \E d \in Documents, who \in {"2", "9"}, files \in ListDirOrders, toGroup \in BOOLEAN :
        APIInit([from |-> IF toGroup
                          THEN <<appSettings.admin_ids[1], USER_SUFFIX, SEP, who, GROUP_SUFFIX>>
                          ELSE <<who, USER_SUFFIX>>,
                 text |-> <<".", "/", "reminder_api">>, media |-> NoMedia,
                 document |-> d, document_type |-> "reminder_api"], files)

RECURSIVE run_preprocess(_, _)
run_preprocess_first_only(st, reg) ==
    IF reg = <<>> THEN st
    ELSE IF Head(reg).preprocess
    THEN Logged(st, "preprocess:" \o Head(reg).command_name)
    ELSE run_preprocess(st, Tail(reg))

\* API.preprocess: the hook of every plugin that defines one, in registry order
run_preprocess(st, reg) ==
    IF reg = <<>> THEN st
    ELSE run_preprocess(IF Head(reg).preprocess
                        THEN Logged(st, "preprocess:" \o Head(reg).command_name)
                        ELSE st,
                        Tail(reg))

\* self.preprocess() in API.start_prosess
Preprocess ==
    /\ pc = "start_prosess"
    /\ Continue(run_preprocess(St, plugins), "tokenize")
    /\ UNCHANGED <<DEBUG, other, plugin_files, plugins, context, response, history, inbound, rawAddr,
                   idResult>>

\* self.message.process_incoming_text_message(); self.register_user() and the
\* test on self.message.arguments in API.start_prosess
Tokenize_always_resolver ==
    /\ pc = "tokenize"
    /\ LET st == process_incoming_text_message(St)
           st1 == IF st.exc = None THEN Logged(st, "register_user") ELSE st IN
       Continue(st1, "message")
    /\ UNCHANGED <<DEBUG, other, plugin_files, plugins, context, response, history, inbound, rawAddr,
                   idResult>>

Tokenize ==
    /\ pc = "tokenize"
    /\ LET st == process_incoming_text_message(St)
           st1 == IF st.exc = None THEN Logged(st, "register_user") ELSE st IN
       Continue(st1, IF TruthySeq(st.message.arguments) THEN "command" ELSE "message")
    /\ UNCHANGED <<DEBUG, other, plugin_files, plugins, context, response, history, inbound, rawAddr,
                   idResult>>

\* self.command_handle() inside the try of API.start_prosess
CommandHandle ==
    /\ pc = "command"
    /\ Continue(start_prosess_except(command_handle(St, plugins)), "done")
    /\ UNCHANGED <<DEBUG, other, plugin_files, plugins, context, response, history, inbound, rawAddr,
                   idResult>>

\* [:5] in API.get_previous_messages
ContextLimit == 5

Reverse(s) == [i \in DOMAIN s |-> s[Len(s) + 1 - i]]

\* order_by("-date") on GPTResponse rows given in creation order: the model
\* class is in api/models.py; date is taken to be the time the row was created
order_by_date_desc(rows) == Reverse(rows)

\* GPTResponse.objects.filter(group=..., sender=...).order_by("-date")[:5]:
\* the rows of the key, latest first
LatestRows(hist, m) ==
    LET own == SelectSeq(hist, LAMBDA r : r.group = m.group /\ r.sender = m.sender)
        desc == order_by_date_desc(own) IN
    SubSeq(desc, 1, IF Len(desc) < ContextLimit THEN Len(desc) ELSE ContextLimit)

\* API.get_previous_messages: a user entry and an assistant entry per row, in
\* the order of the query
get_previous_messages(hist, m) ==
    LET rows == LatestRows(hist, m) IN
    [i \in 1..(2 * Len(rows)) |->
        IF i % 2 = 1
        THEN [role |-> "user", content |-> rows[(i + 1) \div 2].message]
        ELSE [role |-> "assistant", content |-> rows[i \div 2].response]]

\* response = self.gptResponse(): pytz.timezone(None) raises before the model
\* is called; the call is given the previous messages and may fail, its
\* answer may not be JSON, otherwise the model answers with some response
GptResponse ==
    /\ pc = "message"
    /\ UNCHANGED <<DEBUG, other, plugin_files, plugins, history, inbound, rawAddr, idResult>>
    /\ LET st == Logged(St, "gptResponse") IN
       IF message.timezone = None
       THEN /\ Continue(Raise(st, "UnknownTimeZoneError", <<>>), "done")
            /\ UNCHANGED <<context, response>>
       ELSE /\ context' = get_previous_messages(history, message)
            /\ \/ /\ Continue(Raise(st, "APIError", <<>>), "done")
                  /\ UNCHANGED response
               \/ /\ Continue(Raise(st, "JSONDecodeError", <<>>), "done")
                  /\ UNCHANGED response
               \/ \E r \in Responses :
                    /\ response' = r
                    /\ Continue(st, "console")

\* API.resolve_console
resolve_console_unprefixed(m, console) == console

resolve_console(m, console) ==
    IF StartsWith(console, <<"/">>) THEN m.command_prefix \o Tail(console)
    ELSE IF StartsWith(console, <<".", "/">>) THEN m.command_prefix \o Tail(Tail(console))
    ELSE m.command_prefix \o console

\* if response.get("console"): ... in API.message_handle; an exception leaves
\* message_handle, and start_prosess catches CommandNotFound and SenderNotAdmin
ConsoleBranch ==
    /\ pc = "console"
    /\ UNCHANGED <<DEBUG, other, plugin_files, plugins, context, response, history, inbound, rawAddr,
                   idResult>>
    /\ IF ~TruthySeq(response.console)
       THEN Continue(St, "chat")
       ELSE LET text == IF StartsWith(response.console, message.command_prefix)
                        THEN response.console
                        ELSE resolve_console(message, response.console)
                st0 == Logged([St EXCEPT !.message.incoming_text_message = text],
                              "resolve_console")
                st1 == process_incoming_text_message(st0)
                st2 == IF st1.exc # None THEN st1
                       ELSE IF st1.message.arguments = NoneSeq
                       THEN Raise(Logged(st1, "command_handle"), "TypeError", <<>>)
                       ELSE command_handle(st1, plugins) IN
            Continue(start_prosess_except(st2), IF st2.exc # None THEN "done" ELSE "chat")

\* if response.get("chat"): ... in API.message_handle
ChatBranch_unsent ==
    /\ pc = "chat"
    /\ UNCHANGED <<DEBUG, other, plugin_files, plugins, context, response, history, inbound, rawAddr,
                   idResult>>
    /\ IF ~TruthyStr(response.chat)
       THEN Continue(St, "save")
       ELSE Continue([St EXCEPT !.message.outgoing_text_message = <<response.chat>>], "save")

ChatBranch ==
    /\ pc = "chat"
    /\ UNCHANGED <<DEBUG, other, plugin_files, plugins, context, response, history, inbound, rawAddr,
                   idResult>>
    /\ IF ~TruthyStr(response.chat)
       THEN Continue(St, "save")
       ELSE Continue(send_message(
                [St EXCEPT !.message.incoming_text_message =
                               IF message.media_path # None
                               THEN @ \o <<"\nAttachment: ", message.media_path>>
                               ELSE @,
                           !.message.outgoing_text_message = <<response.chat>>]), "save")

\* API.save_response
SaveResponse ==
    /\ pc = "save"
    /\ history' = Append(history,
          [message |-> message.incoming_text_message,
           response |-> [console |-> response.console, chat |-> response.chat,
                         system |-> message.outgoing_text_message],
           group |-> message.group, sender |-> message.sender])
    /\ Continue(Logged(St, "save_response"), "done")
    /\ UNCHANGED <<DEBUG, other, plugin_files, plugins, context, response, inbound, rawAddr, idResult>>

\* The view returns its JsonResponse, or the exception leaves it: the API object
\* and its Message are dropped
Return ==
    /\ pc = "done"
    /\ pc' = "idle"
    /\ message' = NoMessage
    /\ response' = NoResponse
    /\ plugin_files' = <<>>
    /\ plugins' = <<>>
    /\ context' = <<>>
    /\ sent' = <<>>
    /\ invoked' = <<>>
    /\ log' = <<>>
    /\ raised' = None
    /\ inbound' = NoEvent
    /\ rawAddr' = <<>>
    /\ idResult' = NotRun
    /\ UNCHANGED <<appSettings, DEBUG, other, history>>

InitSettings ==
    [admin_ids |-> <<"1">>, blacklist_ids |-> {}, admin_command_prefix |-> "abd",
     classroom_group_id |-> "9"]

\* An API object that handles no request
Idle ==
    [plugin_files |-> <<>>, plugins |-> <<>>, message |-> NoMessage, context |-> <<>>,
     response |-> NoResponse, pc |-> "idle", sent |-> <<>>, invoked |-> <<>>, log |-> <<>>,
     raised |-> None, inbound |-> NoEvent, rawAddr |-> <<>>, idResult |-> NotRun]

Init ==
    /\ appSettings = InitSettings
    /\ DEBUG \in BOOLEAN
    /\ other = Idle
    /\ plugin_files = <<>>
    /\ plugins = <<>>
    /\ message = NoMessage
    /\ context = <<>>
    /\ response = NoResponse
    /\ pc = "idle"
    /\ sent = <<>>
    /\ invoked = <<>>
    /\ log = <<>>
    /\ raised = None
    /\ history = <<>>
    /\ inbound = NoEvent
    /\ rawAddr = <<>>
    /\ idResult = NotRun

Next ==
    \/ whatsapp
    \/ classroom
    \/ reminder
    \/ Preprocess
    \/ Tokenize
    \/ CommandHandle
    \/ GptResponse
    \/ ConsoleBranch
    \/ ChatBranch
    \/ SaveResponse
    \/ Return

Spec == Init /\ [][Next]_vars

----------------------------------------------------------------------------
(* The dispatcher over every content of api/plugins of up to MaxModules modules *)

RegAddresses ==
    { <<"1", USER_SUFFIX>>, <<"2", USER_SUFFIX>>, <<"1", USER_SUFFIX, SEP, "9", GROUP_SUFFIX>> }

RegBodies ==
    { <<"/", "help">>,
      <<"/", "abd">>,
      <<"/", "abd", " ", "help">>,
      <<"/", "settings">>,
      <<"/", "abd", " ", "settings">>,
      <<"hello">> }

\* events of POST /api/whatsapp, with the leading dot in a group
RegEvents ==
    { [from |-> a,
       text |-> IF SEP \in Range(a) THEN <<".">> \o b ELSE b,
       media |-> NoMedia, document |-> NoDocument, document_type |-> None]
      : a \in RegAddresses, b \in RegBodies }

\* taken in while no GPTResponse row exists
whatsappAnyDirectory ==
    /\ pc = "idle"
    /\ history = <<>>
    /\ \E data \in RegEvents, files \in Directories : APIInit(data, files)

InitReg == Init /\ DEBUG = FALSE

NextReg ==
    \/ whatsappAnyDirectory
    \/ Preprocess
    \/ Tokenize
    \/ CommandHandle
    \/ GptResponse
    \/ ConsoleBranch
    \/ ChatBranch
    \/ SaveResponse
    \/ Return

SpecReg == InitReg /\ [][NextReg]_vars

----------------------------------------------------------------------------
(* The dispatcher on handlers that raise SendHelp *)

HelpDirectories ==
    { <<blacklistHandle, askHelp, tellBare>>, <<tellBare, askHelp>>, <<askHelp>> }

HelpBodies ==
    { <<"/", "ask">>,
      <<"/", "ask", " ", "me">>,
      <<"/", "tell">>,
      <<"/", "abd", " ", "tell">>,
      <<"/", "abd", " ", "ask">>,
      <<"/", "abd", " ", "blacklist">> }

HelpEvents ==
    { [from |-> a,
       text |-> IF SEP \in Range(a) THEN <<".">> \o b ELSE b,
       media |-> NoMedia, document |-> NoDocument, document_type |-> None]
      : a \in RegAddresses, b \in HelpBodies }

whatsappSendHelp ==
    /\ pc = "idle"
    /\ \E data \in HelpEvents, files \in HelpDirectories : APIInit(data, files)

InitSendHelp == Init /\ DEBUG = FALSE

NextSendHelp ==
    \/ whatsappSendHelp
    \/ Preprocess
    \/ Tokenize
    \/ CommandHandle
    \/ Return

SpecSendHelp == InitSendHelp /\ [][NextSendHelp]_vars

----------------------------------------------------------------------------
(* Two requests in flight at once *)

\* The API object of the request that runs
Running ==
    [plugin_files |-> plugin_files, plugins |-> plugins, message |-> message,
     context |-> context, response |-> response, pc |-> pc, sent |-> sent,
     invoked |-> invoked, log |-> log, raised |-> raised, inbound |-> inbound,
     rawAddr |-> rawAddr, idResult |-> idResult]

\* The server goes on with the other request: the two requests are handled
\* by two threads and share appSettings, DEBUG and the GPTResponse table
Switch ==
    /\ other' = Running
    /\ plugin_files' = other.plugin_files
    /\ plugins' = other.plugins
    /\ message' = other.message
    /\ context' = other.context
    /\ response' = other.response
    /\ pc' = other.pc
    /\ sent' = other.sent
    /\ invoked' = other.invoked
    /\ log' = other.log
    /\ raised' = other.raised
    /\ inbound' = other.inbound
    /\ rawAddr' = other.rawAddr
    /\ idResult' = other.idResult
    /\ UNCHANGED <<appSettings, DEBUG, history>>

ConcTexts ==
    { <<"hello">>,
      <<"/", "help">>,
      <<"/", "abd", " ", "help">>,
      <<"/", "abd", " ", "settings">>,
      <<"/", "abd", " ", "blacklist", " ", "-a", " ", "2">>,
      <<"/", "abd", " ", "blacklist", " ", "-r", " ", "2">> }

ConcEvents ==
    { [from |-> <<a, USER_SUFFIX>>, text |-> t, media |-> NoMedia, document |-> NoDocument,
       document_type |-> None] : a \in {"1", "2"}, t \in ConcTexts }

whatsappConcurrent ==
    /\ pc = "idle"
    /\ Len(history) < MaxHistory
    /\ \E data \in ConcEvents :
          APIInit(data, <<blacklistHandle, settingsHandle, classroomHandle>>)

InitConcurrent == Init /\ DEBUG = FALSE

NextConcurrent ==
    \/ whatsappConcurrent
    \/ Preprocess
    \/ Tokenize
    \/ CommandHandle
    \/ GptResponse
    \/ ConsoleBranch
    \/ ChatBranch
    \/ SaveResponse
    \/ Return
    \/ Switch

SpecConcurrent == InitConcurrent /\ [][NextConcurrent]_vars

----------------------------------------------------------------------------
(* The resolver over every history of up to MaxRows rows of three keys *)

CtxKeys ==
    { [sender |-> "1", group |-> None],
      [sender |-> "2", group |-> None],
      [sender |-> "1", group |-> "9"] }

\* GPTResponse rows of earlier cycles, in creation order: row i holds the i-th
\* inbound text and the i-th answer
Rows(keys) ==
    [i \in DOMAIN keys |->
        [message |-> <<"m" \o ToString(i)>>,
         response |-> [console |-> NoneSeq, chat |-> "r" \o ToString(i),
                       system |-> <<"r" \o ToString(i)>>],
         group |-> keys[i].group, sender |-> keys[i].sender]]

Histories == { Rows(keys) : keys \in UNION { [1..n -> CtxKeys] : n \in 0..MaxRows } }

\* free-text events of POST /api/whatsapp, Direct scope and Group scope
ChatEvents ==
    { [from |-> <<"1", USER_SUFFIX>>, text |-> <<"hello">>, media |-> NoMedia,
       document |-> NoDocument, document_type |-> None],
      [from |-> <<"1", USER_SUFFIX, SEP, "9", GROUP_SUFFIX>>, text |-> <<".", "hello">>,
       media |-> NoMedia, document |-> NoDocument, document_type |-> None] }

whatsappChat ==
    /\ pc = "idle"
    /\ \E data \in ChatEvents :
        APIInit(data, <<blacklistHandle, settingsHandle, classroomHandle>>)

InitContext ==
    /\ appSettings = InitSettings
    /\ DEBUG = FALSE
    /\ other = Idle
    /\ plugin_files = <<>>
    /\ plugins = <<>>
    /\ message = NoMessage
    /\ context = <<>>
    /\ response = NoResponse
    /\ pc = "idle"
    /\ sent = <<>>
    /\ invoked = <<>>
    /\ log = <<>>
    /\ raised = None
    /\ history \in Histories
    /\ inbound = NoEvent
    /\ rawAddr = <<>>
    /\ idResult = NotRun

NextContext ==
    \/ whatsappChat
    \/ Preprocess
    \/ Tokenize
    \/ GptResponse
    \/ ConsoleBranch
    \/ ChatBranch
    \/ SaveResponse

SpecContext == InitContext /\ [][NextContext]_vars

----------------------------------------------------------------------------
(* The identity resolver on its own: every raw address of up to MaxAddrLen atoms *)

AddrStrings == UNION { [1..n -> AddrAtoms] : n \in 0..MaxAddrLen }

InitAddr ==
    /\ appSettings = InitSettings
    /\ DEBUG = FALSE
    /\ other = Idle
    /\ plugin_files = <<>>
    /\ plugins = <<>>
    /\ message = NoMessage
    /\ context = <<>>
    /\ response = NoResponse
    /\ pc = "idle"
    /\ sent = <<>>
    /\ invoked = <<>>
    /\ log = <<>>
    /\ raised = None
    /\ history = <<>>
    /\ inbound = NoEvent
    /\ rawAddr \in AddrStrings
    /\ idResult = NotRun

\* self.senderId, self.groupId = self.get_group_and_sender_id(data["from"])
ResolveAddr ==
    /\ idResult = NotRun
    /\ idResult' = get_group_and_sender_id(rawAddr)
    /\ UNCHANGED <<appSettings, DEBUG, other, plugin_files, plugins, message, context, response, pc,
                   sent, invoked, log, raised, history, inbound, rawAddr>>

SpecAddr == InitAddr /\ [][ResolveAddr]_vars

----------------------------------------------------------------------------
(* Properties *)

InLog(what) == what \in Range(log)
IsAdmin(id) == id \in Range(appSettings.admin_ids)

\* The text the tokenizer last worked on is still in incoming_text_message:
\* the chat branch, which appends the attachment note, has not run
TokenizedTextKept == pc \in {"command", "chat"} \/ (pc = "done" /\ ~InLog("save_response"))

\* The tokens of the command text, admin marker included
TypedTokens == Split(message.incoming_text_message)

MarkerTyped ==
    /\ message.arguments # NoneSeq
    /\ TokenizedTextKept
    /\ TypedTokens # <<>>
    /\ TypedTokens[1] = appSettings.admin_command_prefix

\* C1: a plugin handler runs only when arguments[0] is that plugin's command
\* name and the plugin's tier equals the Message's tier, on the command path
\* and in a re-dispatch of a console directive alike.
C1_HandlerOnlyOnNameAndTier ==
    \A i \in DOMAIN invoked :
        /\ invoked[i].arguments[1] = invoked[i].command_name
        /\ invoked[i].plugin_admin = invoked[i].message_admin

\* A handler ran inside the re-dispatch of a console directive.
C1_Witness == invoked # <<>> /\ InLog("resolve_console")

\* C2: in every state of a cycle an Admin-tier Message has a sender of the
\* admin set and a command text whose first token is the admin marker; so an
\* admin sender whose first token is not the marker stays Standard.
C2_AdminTierOnlyForMarkedAdmin ==
    /\ message.admin_privilege => IsAdmin(message.sender)
    /\ (message.arguments # NoneSeq /\ TokenizedTextKept /\ IsAdmin(message.sender)
          /\ (TypedTokens = <<>> \/ TypedTokens[1] # appSettings.admin_command_prefix))
       => ~message.admin_privilege

\* An admin was escalated by the re-tokenization of a console directive.
C2_Witness == message.admin_privilege /\ InLog("resolve_console") /\ pc = "done"

\* C3: a command text whose first token is the admin marker makes an admin
\* sender Admin-tier with the marker dropped (["help"] when nothing is left);
\* a non-admin sender stays Standard with the marker as arguments[0], and the
\* dispatch raises SenderNotAdmin with no handler and no help generator run.
C3_MarkerEscalatesOrIsRefused ==
    MarkerTyped =>
        IF IsAdmin(message.sender)
        THEN /\ message.admin_privilege
             /\ message.arguments = IF Tail(TypedTokens) = <<>> THEN <<"help">>
                                    ELSE Tail(TypedTokens)
        ELSE /\ ~message.admin_privilege
             /\ message.arguments = TypedTokens
             /\ pc = "done" =>
                   /\ InLog("raise:SenderNotAdmin")
                   /\ invoked = <<>>
                   /\ ~InLog("handle_function")
                   /\ ~InLog("get_help")

\* A non-admin's marked command was refused at the end of its cycle.
C3_Witness ==
    MarkerTyped /\ ~IsAdmin(message.sender) /\ pc = "done" /\ InLog("raise:SenderNotAdmin")

\* C4: a dispatch that passes the admin gate and takes neither the help branch
\* nor the plugin branch (no handler runs) ends in CommandNotFound.
C4_Original ==
    (pc = "done" /\ raised = None /\ InLog("command_handle")
        /\ ~InLog("raise:SenderNotAdmin") /\ ~InLog("get_help") /\ ~InLog("handle_function"))
    => InLog("raise:CommandNotFound")

\* A cycle completed: the dispatcher or the resolver ran to its end.
CycleCompleted ==
    /\ pc = "done"
    /\ raised = None
    /\ \/ InLog("command_handle")
       \/ InLog("gptResponse") /\ (TruthySeq(response.console) \/ TruthyStr(response.chat))

\* C5: every completed dispatch cycle performs exactly one outbound send.
C5_Original == CycleCompleted => Len(sent) = 1

\* The event of the cycle is a Group-scope event with empty normalized text.
EmptyGroupEvent ==
    /\ inbound # NoEvent
    /\ idResult.raises = None
    /\ idResult.group # NoneSeq
    /\ set_incoming_text_message(inbound) = <<>>

\* C6: a Group-scope event with empty normalized text is rejected with
\* EmptyMessageInGroup by the validator, and nothing else runs on it: no
\* preprocess hook, no tokenizer, no dispatcher, no resolver.
C6_EmptyGroupRejectedFirst ==
    EmptyGroupEvent =>
        /\ pc = "done"
        /\ raised = "EmptyMessageInGroup"
        /\ log = <<"validate", "raise:EmptyMessageInGroup">>
        /\ sent = <<>>
        /\ invoked = <<>>

\* Such an event was taken in and rejected.
C6_Witness == EmptyGroupEvent /\ raised = "EmptyMessageInGroup"

\* The validator's three conditions on the Message just built
V_Empty == message.group # None /\ message.incoming_text_message = <<>>
V_Blacklisted == ~IsAdmin(message.sender) /\ message.sender \in appSettings.blacklist_ids
V_Debug == ~IsAdmin(message.sender) /\ DEBUG

\* C7: the validator reports the first check that applies, in the order
\* EmptyMessageInGroup, SenderInBlackList, debug mode; it lets a Message pass
\* only when none applies, and never rejects an admin as blacklisted or
\* debug-blocked.
C7_ValidatorOrder ==
    /\ (pc = "done" /\ Len(log) = 2 /\ log[1] = "validate") =>
          raised = IF V_Empty THEN "EmptyMessageInGroup"
                   ELSE IF V_Blacklisted THEN "SenderInBlackList"
                   ELSE IF V_Debug THEN "PermissionError"
                   ELSE "unreachable"
    /\ pc = "start_prosess" => ~V_Empty /\ ~V_Blacklisted /\ ~V_Debug
    /\ raised \in {"SenderInBlackList", "PermissionError"} => ~IsAdmin(message.sender)

\* A blacklisted admin passed the validator, with debug mode on.
C7_Witness ==
    /\ pc = "start_prosess"
    /\ IsAdmin(message.sender)
    /\ message.sender \in appSettings.blacklist_ids
    /\ DEBUG

Rejections == {"EmptyMessageInGroup", "MessageNotValid", "SenderInBlackList", "PermissionError"}

\* C8: a Message rejected with EmptyMessageInGroup, MessageNotValid,
\* SenderInBlackList or the debug-mode error ends its cycle with no send, no
\* handler run, no language-model call and no history row.
C8_RejectedIsSilent ==
    raised \in Rejections =>
        /\ pc = "done"
        /\ sent = <<>>
        /\ invoked = <<>>
        /\ ~InLog("gptResponse")
        /\ ~InLog("save_response")
        /\ ~InLog("command_handle")

\* A Group-scope Message without the leading dot was rejected by the tokenizer.
C8_Witness == raised = "MessageNotValid" /\ InLog("tokenize")

DispatchFailed == InLog("raise:SenderNotAdmin") \/ InLog("raise:CommandNotFound")

\* C9: when the dispatch raises SenderNotAdmin or CommandNotFound, on the
\* command path or in a re-dispatch, the cycle ends with exactly one message
\* sent, the error text, to the conversation of the sender, and no exception
\* leaves the cycle.
C9_DispatchErrorIsReplied ==
    DispatchFailed =>
        /\ pc = "done"
        /\ raised = None
        /\ Len(sent) = 1
        /\ sent[1].endpoint = "send/message"
        /\ sent[1].message = IF InLog("raise:SenderNotAdmin") THEN SenderNotAdminText
                             ELSE CommandNotFoundText(message)
        /\ sent[1].phone = IF message.groupId = NoneSeq THEN message.senderId
                           ELSE message.groupId

\* CommandNotFound was raised in the re-dispatch of a console directive.
C9_Witness == InLog("raise:CommandNotFound") /\ InLog("resolve_console") /\ pc = "done"

\* The part of a raw address after its last separator
RightOf(string) == LET parts == SplitOn(string, SEP, <<>>, <<>>) IN parts[Len(parts)]
Separators(string) == Cardinality({i \in DOMAIN string : string[i] = SEP})

\* The addresses C10 is about
SenderOnlyAddr ==
    /\ idResult # NotRun
    /\ SEP \in Range(rawAddr)
    /\ ~EndsWith(RightOf(rawAddr), <<GROUP_SUFFIX>>)

\* C10: a raw address that contains " in " and whose right-hand side lacks
\* the group suffix resolves to (the original string, no group).
C10_Original ==
    SenderOnlyAddr => idResult = [raises |-> None, sender |-> rawAddr, group |-> NoneSeq]

\* What get_group_and_sender_id returns for the addresses of C10: with one
\* separator (the right-hand side, no group); with more than one the unpacking
\* of the split raises ValueError.
C10_RightSideBecomesSender ==
    SenderOnlyAddr =>
        IF Separators(rawAddr) = 1
        THEN idResult = [raises |-> None, sender |-> RightOf(rawAddr), group |-> NoneSeq]
        ELSE idResult.raises = "ValueError"

\* An address "x in y" with y not a group id was resolved to y.
C10_Witness ==
    /\ SenderOnlyAddr
    /\ Separators(rawAddr) = 1
    /\ idResult.sender = RightOf(rawAddr)
    /\ idResult.sender # <<>>
    /\ rawAddr[1] # SEP

----------------------------------------------------------------------------
(* Help catalog, resolver, registry *)

\* The dispatch of the sole argument "help" has ended.
HelpAsked ==
    /\ pc = "done"
    /\ InLog("command_handle")
    /\ message.arguments = <<"help">>

\* The plugins of the registry the catalog of the Message's tier is to list
VisibleOfTier ==
    SelectSeq(plugins, LAMBDA p : p.admin_privilege = message.admin_privilege /\ ~p.internal)

HelpLines ==
    { "'" \o Join(message.command_prefix) \o "help'",
      "'" \o Join(message.command_prefix) \o appSettings.admin_command_prefix \o " help'" }

\* The one message sent is a catalog: a header, one numbered entry per visible
\* plugin of the Message's tier in registry order, and one trailing help entry
\* that carries the next number.
CatalogSent ==
    /\ raised = None
    /\ Len(sent) = 1
    /\ LET catalog == sent[1].message
           n == Len(VisibleOfTier) IN
       /\ Len(catalog) = 2 * n + 3
       /\ \A k \in 1..n :
             /\ catalog[2 * k] = "*" \o ToString(k) \o ". " \o VisibleOfTier[k].description \o "*"
             /\ catalog[2 * k + 1] =
                    "'" \o Join(message.command_prefix)
                        \o (IF message.admin_privilege
                            THEN appSettings.admin_command_prefix \o " " ELSE "")
                        \o VisibleOfTier[k].command_name \o "'"
       /\ catalog[2 * n + 2] = "*" \o ToString(n + 1) \o ". Show this message*"
       /\ catalog[2 * n + 3] \in HelpLines

\* C11: the dispatch of ["help"] sends a non-empty catalog with exactly one
\* entry per visible plugin of the requester's tier and one trailing help
\* entry, numbered sequentially, whatever the registry holds.
C11_Original == HelpAsked => CatalogSent

\* The catalog as API.get_help builds it: the same, for a registry that holds
\* at least one plugin; on an empty registry the trailing entry reads an
\* unbound name and nothing is sent.
C11_CatalogUnlessRegistryEmpty ==
    HelpAsked => IF plugins # <<>> THEN CatalogSent
                 ELSE raised = "UnboundLocalError" /\ sent = <<>>

\* The language model answered with a chat field and no console directive.
ChatOnly == ~TruthySeq(response.console) /\ TruthyStr(response.chat)

\* The position of the resolver's call in the log of the cycle
ResolverAt == CHOOSE i \in DOMAIN log : log[i] = "gptResponse"

\* What ran in the cycle after the language model was called
AfterResolver == {log[i] : i \in (ResolverAt + 1)..Len(log)}

Count(s, x) == Cardinality({i \in DOMAIN s : s[i] = x})

\* The row API.save_response creates for the cycle's Message
SavedRow ==
    [message |-> message.incoming_text_message,
     response |-> [console |-> response.console, chat |-> response.chat,
                   system |-> message.outgoing_text_message],
     group |-> message.group, sender |-> message.sender]

\* C12: when the language model answers with a chat field only, the cycle
\* ends with exactly one message sent, whose text is the chat value, and with
\* exactly one history row added, and neither the tokenizer nor the dispatcher
\* runs after the model was called.
C12_ChatOnlyRoundTrip ==
    /\ [](ChatOnly /\ pc = "done" =>
            /\ raised = None
            /\ Len(sent) = 1
            /\ sent[1].endpoint = "send/message"
            /\ sent[1].message = <<response.chat>>
            /\ AfterResolver = {"save_response"}
            /\ invoked = <<>>
            /\ Count(log, "save_response") = 1
            /\ history # <<>>
            /\ history[Len(history)] = SavedRow)
    /\ [][ChatOnly => Len(history') = Len(history) + (IF pc = "save" THEN 1 ELSE 0)]_vars

\* A chat-only answer was sent and saved.
C12_Witness ==
    ChatOnly /\ pc = "done" /\ Len(sent) = 1 /\ history # <<>> /\ InLog("save_response")

\* The language model answered with a console directive and no chat field.
ConsoleOnly == TruthySeq(response.console) /\ ~TruthyStr(response.chat)

\* The words of a console directive, its command prefix left out
DirectiveWords(console) == Split(LStrip(console, {".", "/"}))

\* The directive's first word is a command name of the registry.
NamesPlugin(console) ==
    /\ DirectiveWords(console) # <<>>
    /\ IndexOf(plugins, DirectiveWords(console)[1]) # 0

\* C13: when the language model answers with only a console directive that
\* names a registered plugin, the cycle ends with the directive re-tokenized
\* into arguments and the handler of the named plugin invoked exactly once.
C13_Original ==
    (ConsoleOnly /\ NamesPlugin(response.console) /\ pc = "done") =>
        /\ message.arguments = DirectiveWords(response.console)
        /\ Len(invoked) = 1
        /\ invoked[1].command_name = DirectiveWords(response.console)[1]

\* The language model was called in the cycle and returned a response.
ModelAnswered ==
    /\ InLog("gptResponse")
    /\ ~InLog("raise:UnknownTimeZoneError")
    /\ ~InLog("raise:APIError")
    /\ ~InLog("raise:JSONDecodeError")

\* C14: a resolver cycle in which the language model returned a response ends
\* with exactly one history row saved for the Message's (sender, group) key,
\* whichever branches fired and however the re-dispatch of the console
\* directive ended.
C14_Original ==
    (ModelAnswered /\ pc = "done") =>
        /\ Count(log, "save_response") = 1
        /\ history # <<>>
        /\ history[Len(history)].sender = message.sender
        /\ history[Len(history)].group = message.group

\* What API.message_handle does: the row is saved exactly when no exception
\* left the console branch, CommandNotFound and SenderNotAdmin included.
C14_SavedUnlessRedispatchRaised ==
    (ModelAnswered /\ pc = "done") =>
        IF \E i \in DOMAIN log : \E e \in {"CommandNotFound", "SenderNotAdmin", "IndexError",
                                             "TypeError", "MessageNotValid"} :
               log[i] = "raise:" \o e
        THEN ~InLog("save_response")
        ELSE Count(log, "save_response") = 1 /\ history[Len(history)] = SavedRow

\* The context of the cycle was built and no row has been added since.
ContextBuilt ==
    /\ InLog("gptResponse")
    /\ message.timezone # None
    /\ ~InLog("save_response")

\* The rows of the Message's own key, in creation order
OwnRows == SelectSeq(history, LAMBDA r : r.group = message.group /\ r.sender = message.sender)

\* Its ContextLimit most recent rows, oldest first
RecentOwnRows ==
    SubSeq(OwnRows, IF Len(OwnRows) > ContextLimit THEN Len(OwnRows) - ContextLimit + 1 ELSE 1,
           Len(OwnRows))

\* The (inbound, outbound) pairs of a list of rows, in the order of the list
Pairs(rows) ==
    [i \in 1..(2 * Len(rows)) |->
        IF i % 2 = 1
        THEN [role |-> "user", content |-> rows[(i + 1) \div 2].message]
        ELSE [role |-> "assistant", content |-> rows[i \div 2].response]]

\* C15: the context passed to the language model holds the pairs of the 5
\* most recent rows of the Message's own key, and of no other row, in
\* chronological order, the oldest of the five first.
C15_Original == ContextBuilt => context = Pairs(RecentOwnRows)

\* What API.get_previous_messages builds: the same pairs, the most recent
\* first.
C15_ContextNewestFirst == ContextBuilt => context = Pairs(Reverse(RecentOwnRows))

\* C16: the language model is called only on a Message whose arguments are
\* absent after tokenization, its text not starting with the command marker,
\* and at most once in a cycle: the re-dispatch of a console directive does
\* not call it again, and a command never calls it.
C16_ResolverOnlyForFreeTextOnce ==
    /\ Count(log, "gptResponse") <= 1
    /\ pc = "message" => message.arguments = NoneSeq
    /\ pc = "console" =>
          /\ message.arguments = NoneSeq
          /\ ~StartsWith(message.incoming_text_message, <<"/">>)
    /\ InLog("gptResponse") =>
          /\ ResolverAt >= 3
          /\ log[ResolverAt - 2] = "tokenize"
          /\ log[ResolverAt - 1] = "register_user"
          /\ \A i \in 1..ResolverAt : log[i] # "command_handle"
    /\ pc = "command" => ~InLog("gptResponse")

\* A console directive was re-dispatched and the model was called once.
C16_Witness ==
    /\ pc = "done"
    /\ InLog("resolve_console")
    /\ InLog("command_handle")
    /\ Count(log, "gptResponse") = 1
    /\ message.arguments # NoneSeq

\* The event of the cycle came in through POST /api/classroom or /api/reminder.
WebhookEvent == inbound.document_type \in {"google_classroom_api", "reminder_api"}

\* C17: on an event of the document-webhook intake, in Group scope or in
\* Direct scope, the language model is never called.
C17_Original == WebhookEvent => ~InLog("gptResponse")

\* What the code does with such an event: in Group scope the synthetic text
\* is a command and the resolver stays out; in Direct scope the text keeps
\* its leading dot, arguments stay absent and the resolver is called.
C17_ResolverOnlyInDirectScope ==
    /\ (WebhookEvent /\ message.group # None) => ~InLog("gptResponse")
    /\ (WebhookEvent /\ message.group = None /\ pc = "done" /\ InLog("tokenize"))
          => InLog("gptResponse")

\* The resolver failed: the Message has no timezone, the call of the language
\* model failed, or its answer was not JSON.
ResolverFailed ==
    \/ InLog("raise:UnknownTimeZoneError")
    \/ InLog("raise:APIError")
    \/ InLog("raise:JSONDecodeError")

\* C18: when the resolver fails, the cycle ends with one reply sent (the
\* apology) and no exception leaves it.
C18_Original ==
    ResolverFailed =>
        /\ pc = "done"
        /\ raised = None
        /\ Len(sent) = 1
        /\ sent[1].endpoint = "send/message"

\* What the code does: the exception leaves API(data) and nothing is sent or
\* saved.
C18_ResolverFailureEscapes ==
    ResolverFailed =>
        /\ pc = "done"
        /\ raised \in {"UnknownTimeZoneError", "APIError", "JSONDecodeError"}
        /\ sent = <<>>
        /\ ~InLog("save_response")

\* Two modules of the directory declare the same command name and tier.
SameTierCollision ==
    \E i, j \in DOMAIN plugin_files :
        /\ i # j
        /\ plugin_files[i].command_name = plugin_files[j].command_name
        /\ plugin_files[i].admin_privilege = plugin_files[j].admin_privilege

\* C19: loading a directory in which two modules declare the same command
\* name and tier fails with a fatal error: no registry is built from it and
\* the cycle does not go on.
C19_Original ==
    SameTierCollision =>
        /\ plugins = <<>>
        /\ pc = "done"
        /\ raised # None
        /\ ~InLog("tokenize")

\* What Plugin.load_plugins builds: one entry per declared command name, that
\* of the module listed last with the name, whatever the tiers; it never fails.
C19_LastModuleOfNameWins ==
    pc \notin {"idle", "done"} =>
        /\ \A i \in DOMAIN plugin_files :
              \E k \in DOMAIN plugins :
                 /\ plugins[k].command_name = plugin_files[i].command_name
                 /\ (plugins[k] = plugin_files[i]) =
                       (\A j \in (i + 1)..Len(plugin_files) :
                           plugin_files[j].command_name # plugin_files[i].command_name)
        /\ \A k, l \in DOMAIN plugins :
              plugins[k].command_name = plugins[l].command_name => k = l
        /\ \A k \in DOMAIN plugins : \E i \in DOMAIN plugin_files : plugins[k] = plugin_files[i]

\* The directory holds the command name "settings" once in each tier.
SettingsInBothTiers ==
    /\ \E i \in DOMAIN plugin_files : plugin_files[i] = settingsHandle
    /\ \E i \in DOMAIN plugin_files : plugin_files[i] = settingsUser
    /\ ~SameTierCollision

\* C20: when two modules declare the same command name in different tiers,
\* both are entries of the registry after load, and a Message that names the
\* command reaches the handler of the module of its own tier.
C20_Original ==
    SettingsInBothTiers =>
        /\ \E k \in DOMAIN plugins : plugins[k] = settingsHandle
        /\ \E k \in DOMAIN plugins : plugins[k] = settingsUser
        /\ (pc = "done" /\ InLog("command_handle") /\ message.arguments[1] = "settings") =>
              /\ Len(invoked) = 1
              /\ invoked[1].file = IF message.admin_privilege THEN "settingsHandle"
                                   ELSE "settingsUser"

----------------------------------------------------------------------------
(* Preprocess hooks, token lists, shared settings *)

PreprocessEntry(p) == "preprocess:" \o p.command_name

\* The first tokenization of the cycle, Len(log) + 1 before it has run
FirstTokenizeAt ==
    IF InLog("tokenize") THEN CHOOSE i \in DOMAIN log :
                                  log[i] = "tokenize" /\ \A j \in 1..(i - 1) : log[j] # "tokenize"
    ELSE Len(log) + 1

\* C21: once a validated Message is past the preprocess step, the hook of
\* every plugin of the registry that defines one has run exactly once, all
\* hook runs come before the first tokenization, so none happens in a
\* re-dispatch, no other hook has run, and the registry is still the one
\* that was loaded.
C21_HooksOncePerMessage ==
    /\ InLog("load_plugins") => plugins = load_plugins(plugin_files)
    /\ (InLog("load_plugins") /\ pc # "start_prosess") =>
          /\ \A k \in DOMAIN plugins :
                Count(log, PreprocessEntry(plugins[k])) = IF plugins[k].preprocess THEN 1 ELSE 0
          /\ \A i \in DOMAIN log :
                (\E m \in Modules : log[i] = PreprocessEntry(m)) =>
                    /\ i < FirstTokenizeAt
                    /\ \E k \in DOMAIN plugins : plugins[k].preprocess
                                                  /\ log[i] = PreprocessEntry(plugins[k])
    /\ pc = "start_prosess" => \A m \in Modules : ~InLog(PreprocessEntry(m))

\* Two hooks ran, and a console directive was re-dispatched afterwards.
C21_Witness ==
    /\ pc = "done"
    /\ InLog("resolve_console")
    /\ InLog("command_handle")
    /\ Cardinality({k \in DOMAIN plugins : plugins[k].preprocess}) = 2
    /\ Count(log, "tokenize") = 2

\* A command text that is the command marker alone, whitespace aside; in a
\* group, behind the leading dot
MarkerOnly(text, inGroup) ==
    LET t == IF inGroup THEN Strip(LStrip(text, {"."})) ELSE text IN
    /\ inGroup => MatchesDot(text)
    /\ StartsWith(t, <<"/">>)
    /\ Strip(Tail(t)) = <<>>

\* The text of a console directive as message_handle hands it to the tokenizer
ConsoleText(console) ==
    IF StartsWith(console, message.command_prefix) THEN console
    ELSE resolve_console(message, console)

\* The cycle tokenized a marker-only text, typed or returned as a directive.
MarkerOnlyTokenized ==
    /\ InLog("tokenize")
    /\ \/ MarkerOnly(set_incoming_text_message(inbound), message.group # None)
       \/ /\ InLog("resolve_console")
          /\ MarkerOnly(ConsoleText(response.console), message.group # None)

\* C22: arguments is absent or a non-empty token list in every state, and a
\* cycle that tokenized a marker-only command text ends with the help catalog
\* sent and no exception.
C22_Original ==
    /\ message.arguments = NoneSeq \/ message.arguments # <<>>
    /\ (MarkerOnlyTokenized /\ pc = "done") =>
          /\ InLog("get_help")
          /\ raised = None
          /\ sent # <<>>

\* What the tokenizer does with a marker-only text: arguments becomes the
\* empty list and arguments[0] raises IndexError, which leaves the cycle; no
\* other text leaves arguments empty.
C22_MarkerOnlyRaisesIndexError ==
    /\ message.arguments = <<>> => (raised = "IndexError" /\ pc = "done" /\ MarkerOnlyTokenized)
    /\ (MarkerOnlyTokenized /\ pc = "done") =>
          /\ raised = "IndexError"
          /\ message.arguments = <<>>
          /\ ~InLog("get_help")
          /\ sent = <<>>

WroteSettings(l) == "write:blacklist_ids" \in Range(l)
Validated(l) == "validate" \in Range(l)

Dispatched == plugins[IndexOf(plugins, message.arguments[1])]

\* C24: when the invoked handler raises SendHelp, the cycle ends with exactly
\* one message sent, the structured help of that plugin, and with no
\* exception and no CommandNotFound, whether or not the plugin declares a
\* help schema.
C24_Original ==
    (InLog("raise:SendHelp") /\ pc = "done") =>
        /\ raised = None
        /\ ~InLog("raise:CommandNotFound")
        /\ Len(sent) = 1
        /\ sent[1].endpoint = "send/message"
        /\ sent[1].message[1] = "*Command Name: '" \o Dispatched.command_name \o "'*"

\* What the dispatcher does: the help is sent for a plugin with a help schema;
\* for a plugin without one Plugin.str_help_message raises TypeError, which
\* leaves the cycle with nothing sent.
C24_HelpOnlyWithSchema ==
    (InLog("raise:SendHelp") /\ pc = "done") =>
        IF Dispatched.help_message
        THEN /\ raised = None
             /\ Len(sent) = 1
             /\ sent[1].message[1] = "*Command Name: '" \o Dispatched.command_name \o "'*"
        ELSE raised = "TypeError" /\ sent = <<>>

----------------------------------------------------------------------------
(* Group scope *)

\* The leading-dot structural pattern: one dot, then a character that is not
\* a dot
LeadingDotPattern(text) == Len(text) >= 2 /\ text[1] = "." /\ text[2] # "."

\* The text of the cycle's event as the validator saw it
InboundText == set_incoming_text_message(inbound)

\* The first tokenization of the cycle has just run.
JustTokenized ==
    \/ pc \in {"command", "message"}
    \/ pc = "done" /\ InLog("tokenize") /\ ~InLog("command_handle") /\ ~InLog("gptResponse")

\* The Message of the cycle before tokenization, had it come in Direct scope
\* with the text that is left when the leading dots are stripped
DirectTwin ==
    [FinishMessage(NewMessage(inbound, idResult), inbound)
        EXCEPT !.group = None,
               !.incoming_text_message = Strip(LStrip(InboundText, {"."}))]

TwinTokenized ==
    process_incoming_text_message(
        [message |-> DirectTwin, sent |-> <<>>, invoked |-> <<>>, log |-> <<>>,
         appSettings |-> appSettings, exc |-> None, excText |-> <<>>])

\* C25: in Group scope a validated Message whose text does not match the
\* leading-dot pattern ends in MessageNotValid with no dispatch, no help
\* render, no handler and no call of the language model; one whose text
\* matches is tokenized to the text, arguments, tier and failure that a
\* Direct message with the stripped text is tokenized to.
C25_GroupDotGate ==
    (InLog("tokenize") /\ message.group # None) =>
        IF ~LeadingDotPattern(InboundText)
        THEN /\ pc = "done"
             /\ raised = "MessageNotValid"
             /\ sent = <<>>
             /\ invoked = <<>>
             /\ ~InLog("command_handle")
             /\ ~InLog("get_help")
             /\ ~InLog("gptResponse")
        ELSE /\ raised # "MessageNotValid"
             /\ JustTokenized =>
                   /\ message.incoming_text_message = TwinTokenized.message.incoming_text_message
                   /\ message.arguments = TwinTokenized.message.arguments
                   /\ message.admin_privilege = TwinTokenized.message.admin_privilege
                   /\ raised = TwinTokenized.exc

\* A Group-scope command with the admin marker was tokenized and escalated.
C25_Witness ==
    /\ pc = "command"
    /\ message.group # None
    /\ LeadingDotPattern(InboundText)
    /\ message.admin_privilege
    /\ Len(message.arguments) >= 2

----------------------------------------------------------------------------
(* Console directive and chat reply in one answer *)

\* The language model answered with a console directive and a chat reply.
ConsoleAndChat == TruthySeq(response.console) /\ TruthyStr(response.chat)

\* The re-dispatch of the directive ran, then the chat reply was sent as the
\* last message of the cycle, then the history row was saved.
BothFiredInOrder ==
    /\ InLog("resolve_console")
    /\ sent # <<>>
    /\ sent[Len(sent)].message = <<response.chat>>
    /\ sent[Len(sent)].endpoint = "send/message"
    /\ log[Len(log)] = "save_response"
    /\ Count(log, "save_response") = 1
    /\ history # <<>>
    /\ history[Len(history)] = SavedRow

\* C26: when the answer holds a console directive and a chat reply, the cycle
\* ends with the re-dispatch run first, the chat reply sent after it and the
\* history row saved last, however the re-dispatch ended.
C26_Original == (ConsoleAndChat /\ pc = "done") => BothFiredInOrder

\* What API.message_handle does: the same, unless the re-dispatch raised; then
\* the chat reply is not sent and no row is saved.
C26_ChatUnlessRedispatchRaised ==
    (ConsoleAndChat /\ pc = "done") =>
        IF \E i \in DOMAIN log : \E e \in {"CommandNotFound", "SenderNotAdmin", "IndexError",
                                             "TypeError", "MessageNotValid"} :
               log[i] = "raise:" \o e
        THEN /\ \A i \in DOMAIN sent : sent[i].message # <<response.chat>>
             /\ ~InLog("save_response")
        ELSE BothFiredInOrder

====
